---------------------------- MODULE Spec2Model ----------------------------
(***************************************************************************)
(* State-machine model of server.js: an Express application with four      *)
(* handlers on the table libros (books) and two on the table usuarios      *)
(* (users), each a sequence of parameterised SQL statements separated by   *)
(* awaits.                                                                 *)
(*                                                                         *)
(* Every handler is modelled twice from the same operators:                *)
(*   - SpecLibros, SpecUsuarios: requests are served one after the other.  *)
(*     A request arrives (Receive), one action runs its whole handler and  *)
(*     writes the response, and the exchange ends (Close).                 *)
(*   - SpecLibrosConc, SpecUsuariosConc: requests interleave at the awaits *)
(*     on the store.  There is one action per stretch of a handler between *)
(*     two statements, and a request that has passed its first statement   *)
(*     sits in the bag inflight, with its local variables, until its       *)
(*     second one runs.                                                    *)
(* The two tables share no statement, so each pair of specifications       *)
(* covers the handlers of one table.                                       *)
(*                                                                         *)
(* The table definitions are not part of server.js.  Where the model needs *)
(* them (libros.usuario_id is an INT NULL column, ids are AUTO_INCREMENT   *)
(* keys, usuarios.correo carries a unique index) they are taken from the   *)
(* specification, and a failure of the store itself (lost connection) is   *)
(* outside the model.                                                      *)
(***************************************************************************)
EXTENDS Integers, Sequences, FiniteSets, Bags, TLC

VARIABLES
    libros,         \* table libros: set of rows [id, titulo, autor, anio, usuario_id]
    nextLibroId,    \* AUTO_INCREMENT counter of libros
    usuarios,       \* table usuarios: set of rows [id, correo, contrasena, nombre]
    nextUsuarioId,  \* AUTO_INCREMENT counter of usuarios
    req,            \* the request being served (serial specifications)
    inflight,       \* bag of requests suspended between two statements (interleaved ones)
    res,            \* the response the step that ran last wrote: [status, cuerpo]
    sqlLog,         \* the statements the step that ran last sent through query()
    registrados     \* history: the registrations answered 200, [correo, contrasena, nombre, id]

vars == <<libros, nextLibroId, usuarios, nextUsuarioId, req, inflight, res, sqlLog,
          registrados>>

librosVars == <<libros, nextLibroId>>
usuariosVars == <<usuarios, nextUsuarioId, registrados>>

(***************************************************************************)
(* Bounds of the model.                                                    *)
(***************************************************************************)
MaxLibros == 2      \* rows ever inserted into libros
MaxUsuarios == 2    \* rows ever inserted into usuarios
MaxInflight == 2    \* requests suspended between two statements at once

(***************************************************************************)
(* JavaScript values, as they arrive in a JSON body, a query string or a   *)
(* result row.                                                             *)
(***************************************************************************)
Undef == [t |-> "undefined"]
Null == [t |-> "null"]
Num(n) == [t |-> "number", n |-> n]
Str(s) == [t |-> "string", s |-> s]

\* The decimal numerals the model reads and writes.
Digits == <<"0", "1", "2", "3", "4", "5", "6", "7", "8", "9">>

IsDecimal(s) == \E i \in 1..Len(Digits) : Digits[i] = s

DecimalValue(s) == (CHOOSE i \in 1..Len(Digits) : Digits[i] = s) - 1

\* ToBoolean, as applied by if (v), !v and v || w.
Truthy(v) ==
    CASE v.t = "undefined" -> FALSE
      [] v.t = "null" -> FALSE
      [] v.t = "number" -> v.n # 0
      [] v.t = "string" -> v.s # ""

\* v || null
OrNull(v) == IF Truthy(v) THEN v ELSE Null

\* The result of Number(v): NaN or a finite number.
NaN == [nan |-> TRUE, n |-> 0]
Finite(n) == [nan |-> FALSE, n |-> n]

Number(v) ==
    CASE v.t = "undefined" -> NaN
      [] v.t = "null" -> Finite(0)
      [] v.t = "number" -> Finite(v.n)
      [] v.t = "string" ->
            IF v.s = "" THEN Finite(0)
            ELSE IF IsDecimal(v.s) THEN Finite(DecimalValue(v.s))
            ELSE NaN

\* a !== b on two results of Number(): NaN differs from everything.
StrictNotEqual(a, b) == a.nan \/ b.nan \/ a.n # b.n

(***************************************************************************)
(* The store: what MySQL does with the parameters of the statements.       *)
(***************************************************************************)
\* A string compared with an integer column is read as a number; a string
\* that does not start with a numeral reads as 0.
SqlNumber(v) ==
    CASE v.t = "number" -> v.n
      [] v.t = "string" -> IF IsDecimal(v.s) THEN DecimalValue(v.s) ELSE 0

\* column = ? on an INT NULL column: NULL equals nothing.
SqlEquals(col, param) ==
    /\ col.t = "number"
    /\ param.t \in {"number", "string"}
    /\ col.n = SqlNumber(param)

\* The value an INT NULL column takes from a parameter, or the failure of the
\* statement: a string that is no numeral is refused under a strict sql_mode
\* and stored as 0 otherwise, and the model leaves the mode open.
ColumnInt(param) ==
    CASE param.t = "null" -> {[ok |-> TRUE, v |-> Null]}
      [] param.t = "number" -> {[ok |-> TRUE, v |-> param]}
      [] param.t = "string" ->
            IF IsDecimal(param.s)
            THEN {[ok |-> TRUE, v |-> Num(DecimalValue(param.s))]}
            ELSE {[ok |-> FALSE, v |-> Null], [ok |-> TRUE, v |-> Num(0)]}

(***************************************************************************)
(* Requests and responses.                                                 *)
(***************************************************************************)
NoRequest == [kind |-> "none"]

Respuesta(status, cuerpo) == [status |-> status, cuerpo |-> cuerpo]

Mensaje(m) == [mensaje |-> Str(m)]

\* No response written (yet).
NoResponse == Respuesta(0, Mensaje(""))

\* titulo, autor, anio of a request body.
Datos ==
    { [titulo |-> Str("T1"), autor |-> Str("A1"), anio |-> Num(2001)],
      [titulo |-> Str("T2"), autor |-> Str("A2"), anio |-> Num(2002)] }

\* usuarioId of a request body.
UsuarioIds ==
    { Undef, Null, Num(0), Num(1), Str(""), Str("0"), Str("1"), Str("2"), Str("abc") }

\* usuarioId of a query string: absent or a string.
QueryUsuarioIds == { Undef, Str(""), Str("0"), Str("1"), Str("2"), Str("abc") }

\* :id of the path, a string: the ids the table can hold and one it never holds.
PathIds == { Str(Digits[i + 1]) : i \in 1..(MaxLibros + 1) }

CrearRequests ==
    { [kind |-> "crear", titulo |-> d.titulo, autor |-> d.autor, anio |-> d.anio,
       usuarioId |-> u] : d \in Datos, u \in UsuarioIds }

ListarRequests == { [kind |-> "listar", usuarioId |-> q] : q \in QueryUsuarioIds }

ActualizarRequests ==
    { [kind |-> "actualizar", id |-> id, titulo |-> d.titulo, autor |-> d.autor,
       anio |-> d.anio, usuarioId |-> u] : id \in PathIds, d \in Datos, u \in UsuarioIds }

EliminarRequests ==
    { [kind |-> "eliminar", id |-> id, usuarioId |-> u] : id \in PathIds, u \in UsuarioIds }

(***************************************************************************)
(* POST /libros                                                            *)
(***************************************************************************)
\* INSERT INTO libros (titulo, autor, anio, usuario_id) VALUES (?, ?, ?, ?)
InsertLibro(tabla, id, titulo, autor, anio, usuario_id) ==
    tabla \cup { [id |-> id, titulo |-> titulo, autor |-> autor, anio |-> anio,
                  usuario_id |-> usuario_id] }

\* Mutant of CrearCuerpo: the body echoes usuarioId as it came.
CrearCuerpoRaw(insertId, r) ==
    [id |-> insertId, titulo |-> r.titulo, autor |-> r.autor, anio |-> r.anio,
     usuarioId |-> r.usuarioId]

CrearCuerpo(insertId, r) ==
    [id |-> insertId, titulo |-> r.titulo, autor |-> r.autor, anio |-> r.anio,
     usuarioId |-> OrNull(r.usuarioId)]

\* The whole handler.
CrearLibro(r) ==
    /\ nextLibroId <= MaxLibros
    /\ \E col \in ColumnInt(OrNull(r.usuarioId)) :
          IF col.ok
          THEN /\ libros' = InsertLibro(libros, nextLibroId, r.titulo, r.autor, r.anio, col.v)
               /\ nextLibroId' = nextLibroId + 1
               /\ res' = Respuesta(200, CrearCuerpo(nextLibroId, r))
          ELSE /\ res' = Respuesta(500, Mensaje("Error al crear libro"))
               /\ UNCHANGED librosVars
    /\ sqlLog' = <<"INSERT libros">>

(***************************************************************************)
(* GET /libros                                                             *)
(***************************************************************************)
\* SELECT * FROM libros [WHERE usuario_id = ?]
SelectLibros(tabla, usuarioId) ==
    IF Truthy(usuarioId)
    THEN { b \in tabla : SqlEquals(b.usuario_id, usuarioId) }
    ELSE tabla

\* res.json(rows): the body is the array of rows
Filas(rows) == [filas |-> rows]

\* The whole handler.
ListarLibros(r) ==
    /\ res' = Respuesta(200, Filas(SelectLibros(libros, r.usuarioId)))
    /\ sqlLog' = <<"SELECT libros">>
    /\ UNCHANGED librosVars

(***************************************************************************)
(* The ownership check of PUT and DELETE /libros/:id                       *)
(***************************************************************************)
\* SELECT usuario_id FROM libros WHERE id = ?
SelectUsuarioId(tabla, id) ==
    IF \E b \in tabla : SqlEquals(Num(b.id), id)
    THEN << [usuario_id |-> (CHOOSE b \in tabla : SqlEquals(Num(b.id), id)).usuario_id] >>
    ELSE << >>

\* Number(rows[0].usuario_id) !== Number(usuarioId)
OwnerDiffers(row, usuarioId) == StrictNotEqual(Number(row.usuario_id), Number(usuarioId))

\* rows.length === 0 => 404; owner differs => 403; otherwise the handler goes on.
Guard(rows, usuarioId) ==
    IF Len(rows) = 0 THEN "NotFound"
    ELSE IF OwnerDiffers(rows[1], usuarioId) THEN "Denied"
    ELSE "Allowed"

(***************************************************************************)
(* PUT /libros/:id                                                         *)
(***************************************************************************)
\* Mutant of ActualizarChecks: the test is usuarioId !== undefined.
ActualizarChecksDefined(usuarioId) == usuarioId.t # "undefined"

\* if (usuarioId): the check runs only for a truthy usuarioId.
ActualizarChecks(usuarioId) == Truthy(usuarioId)

\* UPDATE libros SET titulo=?, autor=?, anio=? WHERE id=?
UpdateLibro(tabla, id, titulo, autor, anio) ==
    { IF SqlEquals(Num(b.id), id)
      THEN [b EXCEPT !.titulo = titulo, !.autor = autor, !.anio = anio]
      ELSE b : b \in tabla }

ActualizarDenied(verdict) ==
    IF verdict = "NotFound"
    THEN Respuesta(404, Mensaje("Libro no encontrado"))
    ELSE Respuesta(403, Mensaje("No autorizado para actualizar este libro"))

\* The handler from its last await on: the UPDATE and the answer.
ActualizarUpdate(r) ==
    /\ libros' = UpdateLibro(libros, r.id, r.titulo, r.autor, r.anio)
    /\ res' = Respuesta(200, Mensaje("Libro actualizado"))
    /\ UNCHANGED nextLibroId

\* The whole handler.
ActualizarLibro(r) ==
    IF ActualizarChecks(r.usuarioId)
    THEN LET verdict == Guard(SelectUsuarioId(libros, r.id), r.usuarioId) IN
         IF verdict = "Allowed"
         THEN /\ ActualizarUpdate(r)
              /\ sqlLog' = <<"SELECT usuario_id", "UPDATE libros">>
         ELSE /\ res' = ActualizarDenied(verdict)
              /\ sqlLog' = <<"SELECT usuario_id">>
              /\ UNCHANGED librosVars
    ELSE /\ ActualizarUpdate(r)
         /\ sqlLog' = <<"UPDATE libros">>

(***************************************************************************)
(* DELETE /libros/:id                                                      *)
(***************************************************************************)
\* Mutant of EliminarRejects: the test is usuarioId === null.
EliminarRejectsNull(usuarioId) == usuarioId.t = "null"

\* if (!usuarioId) return 400
EliminarRejects(usuarioId) == ~Truthy(usuarioId)

\* DELETE FROM libros WHERE id = ?
DeleteLibro(tabla, id) == { b \in tabla : ~SqlEquals(Num(b.id), id) }

EliminarMissing == Respuesta(400, Mensaje("Se requiere usuarioId para eliminar"))

EliminarDenied(verdict) ==
    IF verdict = "NotFound"
    THEN Respuesta(404, Mensaje("Libro no encontrado"))
    ELSE Respuesta(403, Mensaje("No autorizado para eliminar este libro"))

\* The handler from its last await on: the DELETE and the answer.
EliminarDelete(r) ==
    /\ libros' = DeleteLibro(libros, r.id)
    /\ res' = Respuesta(200, Mensaje("Libro eliminado"))
    /\ UNCHANGED nextLibroId

\* The whole handler.
EliminarLibro(r) ==
    IF EliminarRejects(r.usuarioId)
    THEN /\ res' = EliminarMissing
         /\ sqlLog' = << >>
         /\ UNCHANGED librosVars
    ELSE LET verdict == Guard(SelectUsuarioId(libros, r.id), r.usuarioId) IN
         IF verdict = "Allowed"
         THEN /\ EliminarDelete(r)
              /\ sqlLog' = <<"SELECT usuario_id", "DELETE libros">>
         ELSE /\ res' = EliminarDenied(verdict)
              /\ sqlLog' = <<"SELECT usuario_id">>
              /\ UNCHANGED librosVars

(***************************************************************************)
(* Initial state.                                                          *)
(***************************************************************************)
Init ==
    /\ libros = {}
    /\ nextLibroId = 1
    /\ usuarios = {}
    /\ nextUsuarioId = 1
    /\ req = NoRequest
    /\ inflight = EmptyBag
    /\ res = NoResponse
    /\ sqlLog = << >>
    /\ registrados = {}

(***************************************************************************)
(* The book handlers, one request after the other.                         *)
(***************************************************************************)
\* A request whose handler has not run yet.
Serving(kind) == req.kind = kind /\ res = NoResponse

ReceiveLibros ==
    /\ req = NoRequest
    /\ \E r \in CrearRequests \cup ListarRequests \cup ActualizarRequests \cup EliminarRequests :
          /\ r.kind = "crear" => nextLibroId <= MaxLibros
          /\ req' = r
    /\ UNCHANGED <<librosVars, usuariosVars, inflight, res, sqlLog>>

Crear == Serving("crear") /\ CrearLibro(req) /\ UNCHANGED <<usuariosVars, req, inflight>>

Listar == Serving("listar") /\ ListarLibros(req) /\ UNCHANGED <<usuariosVars, req, inflight>>

Actualizar ==
    Serving("actualizar") /\ ActualizarLibro(req) /\ UNCHANGED <<usuariosVars, req, inflight>>

Eliminar ==
    Serving("eliminar") /\ EliminarLibro(req) /\ UNCHANGED <<usuariosVars, req, inflight>>

\* The response is sent and the exchange is over.
Close ==
    /\ res # NoResponse
    /\ req' = NoRequest
    /\ res' = NoResponse
    /\ sqlLog' = << >>
    /\ UNCHANGED <<librosVars, usuariosVars, inflight>>

NextLibros == ReceiveLibros \/ Crear \/ Listar \/ Actualizar \/ Eliminar \/ Close

SpecLibros == Init /\ [][NextLibros]_vars

(***************************************************************************)
(* The book handlers, interleaved at their awaits.                         *)
(***************************************************************************)
\* The values of usuarioId drawn under interleaving.
ConcUsuarioIds == { Undef, Num(1), Str("1"), Str("0") }

ConcPathIds == { Str(Digits[i + 1]) : i \in 1..MaxLibros }

Suspend(r) == inflight' = inflight (+) SetToBag({r})

Resume(r) == inflight' = inflight (-) SetToBag({r})

Suspended(kind) == { r \in BagToSet(inflight) : r.kind = kind }

CrearConc ==
    /\ \E r \in CrearRequests : r.usuarioId \in ConcUsuarioIds /\ CrearLibro(r)
    /\ UNCHANGED <<usuariosVars, req, inflight>>

ListarConc ==
    /\ \E r \in ListarRequests : ListarLibros(r)
    /\ UNCHANGED <<usuariosVars, req, inflight>>

\* PUT /libros/:id up to its first await: the SELECT of the check and what it
\* decides, or the whole handler when the check is skipped.
ActualizarSelect(r) ==
    IF ActualizarChecks(r.usuarioId)
    THEN LET verdict == Guard(SelectUsuarioId(libros, r.id), r.usuarioId) IN
         /\ sqlLog' = <<"SELECT usuario_id">>
         /\ UNCHANGED librosVars
         /\ IF verdict = "Allowed"
            THEN /\ BagCardinality(inflight) < MaxInflight
                 /\ Suspend(r)
                 /\ res' = NoResponse
            ELSE /\ res' = ActualizarDenied(verdict)
                 /\ UNCHANGED inflight
    ELSE /\ ActualizarUpdate(r)
         /\ sqlLog' = <<"UPDATE libros">>
         /\ UNCHANGED inflight

ActualizarBegin ==
    /\ \E r \in ActualizarRequests :
          r.id \in ConcPathIds /\ r.usuarioId \in ConcUsuarioIds /\ ActualizarSelect(r)
    /\ UNCHANGED <<usuariosVars, req>>

ActualizarResume(r) ==
    /\ ActualizarUpdate(r)
    /\ sqlLog' = <<"UPDATE libros">>
    /\ Resume(r)

ActualizarEnd ==
    /\ \E r \in Suspended("actualizar") : ActualizarResume(r)
    /\ UNCHANGED <<usuariosVars, req>>

\* DELETE /libros/:id up to its first await.
EliminarSelect(r) ==
    IF EliminarRejects(r.usuarioId)
    THEN /\ res' = EliminarMissing
         /\ sqlLog' = << >>
         /\ UNCHANGED <<librosVars, inflight>>
    ELSE LET verdict == Guard(SelectUsuarioId(libros, r.id), r.usuarioId) IN
         /\ sqlLog' = <<"SELECT usuario_id">>
         /\ UNCHANGED librosVars
         /\ IF verdict = "Allowed"
            THEN /\ BagCardinality(inflight) < MaxInflight
                 /\ Suspend(r)
                 /\ res' = NoResponse
            ELSE /\ res' = EliminarDenied(verdict)
                 /\ UNCHANGED inflight

EliminarBegin ==
    /\ \E r \in EliminarRequests :
          r.id \in ConcPathIds /\ r.usuarioId \in ConcUsuarioIds /\ EliminarSelect(r)
    /\ UNCHANGED <<usuariosVars, req>>

EliminarResume(r) ==
    /\ EliminarDelete(r)
    /\ sqlLog' = <<"DELETE libros">>
    /\ Resume(r)

EliminarEnd ==
    /\ \E r \in Suspended("eliminar") : EliminarResume(r)
    /\ UNCHANGED <<usuariosVars, req>>

NextLibrosConc ==
    CrearConc \/ ListarConc \/ ActualizarBegin \/ ActualizarEnd \/ EliminarBegin \/ EliminarEnd

SpecLibrosConc == Init /\ [][NextLibrosConc]_vars

(***************************************************************************)
(* bcrypt, symbolically: a hash records its cost and its salt, and two     *)
(* digests agree only on the same password, salt and cost.                 *)
(***************************************************************************)
SaltRounds == 10

\* The salts bcrypt.hash may draw.
Salts == {"s1", "s2"}

Digest(contrasena, salt, rounds) == <<contrasena.s, salt, rounds>>

\* bcrypt.hash(contrasena, rounds), with the salt it drew
BcryptHash(contrasena, rounds, salt) ==
    [rounds |-> rounds, salt |-> salt, digest |-> Digest(contrasena, salt, rounds)]

\* bcrypt.compare(contrasena, hash)
BcryptCompare(contrasena, hash) == hash.digest = Digest(contrasena, hash.salt, hash.rounds)

(***************************************************************************)
(* POST /usuarios/registro                                                 *)
(***************************************************************************)
Correos == { Str(""), Str("a@x"), Str("b@x"), Str("c@x") }

Contrasenas == { Str(""), Str("p"), Str("q") }

Nombres == { Undef, Str("Ana") }

RegistroRequests ==
    { [kind |-> "registro", correo |-> c, contrasena |-> p, nombre |-> n] :
        c \in Correos, p \in Contrasenas, n \in Nombres }

LoginRequests ==
    { [kind |-> "login", correo |-> c, contrasena |-> p] : c \in Correos, p \in Contrasenas }

\* if (!correo || !contrasena) return 400
MissingFields(r) == ~Truthy(r.correo) \/ ~Truthy(r.contrasena)

CamposObligatorios == Respuesta(400, Mensaje("Correo y contraseña son obligatorios"))

\* SELECT id FROM usuarios WHERE correo = ?
SelectIdByCorreo(tabla, correo) == { [id |-> u.id] : u \in { x \in tabla : x.correo = correo } }

\* Mutant of CorreoExists: the test is existing.length > 1.
CorreoExistsTwice(tabla, correo) == Cardinality(SelectIdByCorreo(tabla, correo)) > 1

\* existing.length > 0
CorreoExists(tabla, correo) == Cardinality(SelectIdByCorreo(tabla, correo)) > 0

CorreoRegistrado == Respuesta(409, Mensaje("El correo ya está registrado"))

\* The unique index on usuarios.correo refuses a second row with the same value.
DuplicateEntry(tabla, correo) == \E u \in tabla : u.correo = correo

\* INSERT INTO usuarios (correo, contrasena, nombre) VALUES (?, ?, ?), and what
\* follows it: the 200 answer, or the 500 of the catch when the statement throws.
RegistroInsert(r) ==
    /\ nextUsuarioId <= MaxUsuarios
    /\ \E salt \in Salts :
          LET hash == BcryptHash(r.contrasena, SaltRounds, salt) IN
          IF DuplicateEntry(usuarios, r.correo)
          THEN /\ res' = Respuesta(500, Mensaje("Error en el registro"))
               /\ UNCHANGED usuariosVars
          ELSE /\ usuarios' = usuarios \cup
                     { [id |-> nextUsuarioId, correo |-> r.correo, contrasena |-> hash,
                        nombre |-> OrNull(r.nombre)] }
               /\ nextUsuarioId' = nextUsuarioId + 1
               /\ res' = Respuesta(200, [mensaje |-> Str("Usuario registrado correctamente"),
                                         id |-> nextUsuarioId])
               /\ registrados' = registrados \cup
                     { [correo |-> r.correo, contrasena |-> r.contrasena,
                        nombre |-> r.nombre, id |-> nextUsuarioId] }

\* The whole handler.
RegistroUsuario(r) ==
    IF MissingFields(r)
    THEN /\ res' = CamposObligatorios
         /\ sqlLog' = << >>
         /\ UNCHANGED usuariosVars
    ELSE IF CorreoExists(usuarios, r.correo)
    THEN /\ res' = CorreoRegistrado
         /\ sqlLog' = <<"SELECT id">>
         /\ UNCHANGED usuariosVars
    ELSE /\ RegistroInsert(r)
         /\ sqlLog' = <<"SELECT id", "INSERT usuarios">>

(***************************************************************************)
(* POST /usuarios/login                                                    *)
(***************************************************************************)
\* SELECT id, correo, nombre, contrasena FROM usuarios WHERE correo = ?
SelectByCorreo(tabla, correo) == { u \in tabla : u.correo = correo }

\* Mutant of CorreoDesconocido: an unknown email gets an answer of its own.
CorreoDesconocido404 == Respuesta(404, Mensaje("Usuario no encontrado"))

\* rows.length === 0: the answer to an email that has no row
CorreoDesconocido == Respuesta(401, Mensaje("Correo o contraseña incorrectos"))

\* !ok: the answer to a password that does not match the stored hash
ContrasenaIncorrecta == Respuesta(401, Mensaje("Correo o contraseña incorrectos"))

\* Mutant of DeleteContrasena: the row is returned whole.
KeepContrasena(user) == user

\* delete user.contrasena
DeleteContrasena(user) == [f \in DOMAIN user \ {"contrasena"} |-> user[f]]

\* The answer of the handler to request r on the table.
LoginRespuesta(tabla, r) ==
    IF MissingFields(r) THEN CamposObligatorios
    ELSE LET rows == SelectByCorreo(tabla, r.correo) IN
         IF rows = {} THEN CorreoDesconocido
         ELSE LET user == CHOOSE u \in rows : TRUE IN
              IF ~BcryptCompare(r.contrasena, user.contrasena) THEN ContrasenaIncorrecta
              ELSE Respuesta(200, [mensaje |-> Str("Login exitoso"),
                                   usuario |-> DeleteContrasena(user)])

\* The whole handler.
LoginUsuario(r) ==
    /\ res' = LoginRespuesta(usuarios, r)
    /\ sqlLog' = IF MissingFields(r) THEN << >> ELSE <<"SELECT usuarios">>
    /\ UNCHANGED usuariosVars

(***************************************************************************)
(* The user handlers, one request after the other.                         *)
(***************************************************************************)
ReceiveUsuarios ==
    /\ req = NoRequest
    /\ \E r \in RegistroRequests \cup LoginRequests :
          /\ r.kind = "registro" => nextUsuarioId <= MaxUsuarios
          /\ req' = r
    /\ UNCHANGED <<librosVars, usuariosVars, inflight, res, sqlLog>>

Registro == Serving("registro") /\ RegistroUsuario(req) /\ UNCHANGED <<librosVars, req, inflight>>

Login == Serving("login") /\ LoginUsuario(req) /\ UNCHANGED <<librosVars, req, inflight>>

NextUsuarios == ReceiveUsuarios \/ Registro \/ Login \/ Close

SpecUsuarios == Init /\ [][NextUsuarios]_vars

(***************************************************************************)
(* The user handlers, interleaved at their awaits.                         *)
(***************************************************************************)
\* POST /usuarios/registro up to the await of its SELECT.
RegistroSelect(r) ==
    IF MissingFields(r)
    THEN /\ res' = CamposObligatorios
         /\ sqlLog' = << >>
         /\ UNCHANGED inflight
    ELSE /\ sqlLog' = <<"SELECT id">>
         /\ IF CorreoExists(usuarios, r.correo)
            THEN /\ res' = CorreoRegistrado
                 /\ UNCHANGED inflight
            ELSE /\ BagCardinality(inflight) < MaxInflight
                 /\ nextUsuarioId + BagCardinality(inflight) <= MaxUsuarios
                 /\ Suspend(r)
                 /\ res' = NoResponse

RegistroBegin ==
    /\ \E r \in RegistroRequests : RegistroSelect(r)
    /\ UNCHANGED <<librosVars, usuariosVars, req>>

RegistroResume(r) ==
    /\ RegistroInsert(r)
    /\ sqlLog' = <<"INSERT usuarios">>
    /\ Resume(r)

RegistroEnd ==
    /\ \E r \in Suspended("registro") : RegistroResume(r)
    /\ UNCHANGED <<librosVars, req>>

LoginConc ==
    /\ \E r \in LoginRequests : LoginUsuario(r)
    /\ UNCHANGED <<librosVars, req, inflight>>

NextUsuariosConc == RegistroBegin \/ RegistroEnd \/ LoginConc

SpecUsuariosConc == Init /\ [][NextUsuariosConc]_vars

(***************************************************************************)
(* The vocabulary of the properties, stated apart from the handlers.       *)
(***************************************************************************)
\* An absent or empty usuarioId.
Empty(u) == u \in {Undef, Null, Str(""), Num(0)}

\* A value that spells an integer: a number, or a string that is a numeral.
IsNumeral(u) == u.t = "number" \/ (u.t = "string" /\ IsDecimal(u.s))

NumeralValue(u) == IF u.t = "number" THEN u.n ELSE DecimalValue(u.s)

\* The stored owner is a number and the claimed id spells the same number.
NumericallyEqual(stored, claimed) ==
    stored.t = "number" /\ IsNumeral(claimed) /\ stored.n = NumeralValue(claimed)

\* The rows of tabla the path id names.
BooksAt(tabla, id) == { b \in tabla : Str(Digits[b.id + 1]) = id }

\* tabla with titulo, autor and anio of request r written over the rows r names.
Overwritten(tabla, r) ==
    (tabla \ BooksAt(tabla, r.id)) \cup
    { [id |-> b.id, titulo |-> r.titulo, autor |-> r.autor, anio |-> r.anio,
       usuario_id |-> b.usuario_id] : b \in BooksAt(tabla, r.id) }

\* The step in which the handler of the request being served runs.
Handles(kind) == req.kind = kind /\ res = NoResponse /\ res' # NoResponse

(***************************************************************************)
(* C1.  Registering the same email twice, one request after the other: a   *)
(* registration with a non-empty email that has no row yet and a non-empty *)
(* password is answered 200 with the generated id and adds exactly one     *)
(* row, which stays; a registration with an email that has a row is        *)
(* answered 409 and leaves the table as it is.                             *)
(***************************************************************************)
C1_RegisterTwice ==
    [][ /\ \A u \in usuarios : u \in usuarios'
        /\ (Handles("registro") /\ req.correo # Str("") /\ req.contrasena # Str(""))
           => IF \E u \in usuarios : u.correo = req.correo
              THEN res'.status = 409 /\ usuarios' = usuarios
              ELSE /\ res'.status = 200
                   /\ res'.cuerpo.id = nextUsuarioId
                   /\ \E row \in usuarios' :
                         /\ row \notin usuarios
                         /\ usuarios' = usuarios \cup {row}
                         /\ row.correo = req.correo
                         /\ row.id = res'.cuerpo.id ]_vars

\* A second registration of an email registered before has been answered 409.
C1_Witness ==
    /\ req.kind = "registro"
    /\ res.status = 409
    /\ \E h \in registrados : h.correo = req.correo /\ h.contrasena # req.contrasena

(***************************************************************************)
(* C2.  Under every interleaving of registrations, with a unique index on  *)
(* correo: no two rows share an email, and no registration is answered     *)
(* with the generic failure 500 (one that loses the race at the INSERT is  *)
(* answered 409 like any other duplicate).                                 *)
(***************************************************************************)
\* The first half of C2 on its own.
UniqueCorreo == \A u1, u2 \in usuarios : u1.correo = u2.correo => u1 = u2

C2_DuplicateIs409 ==
    /\ \A u1, u2 \in usuarios : u1.correo = u2.correo => u1 = u2
    /\ res.status # 500

(***************************************************************************)
(* C3.  PUT /libros/:id with a non-empty claimed usuarioId: 404 when no    *)
(* book has the id, 403 when the stored owner is not numerically equal to  *)
(* the claimed id, and otherwise 200 with titulo, autor and anio written   *)
(* over the book; on 404 and 403 the table is unchanged.                   *)
(***************************************************************************)
C3_UpdateGuarded ==
    [][ (Handles("actualizar") /\ ~Empty(req.usuarioId))
        => IF BooksAt(libros, req.id) = {}
           THEN res'.status = 404 /\ libros' = libros
           ELSE \A b \in BooksAt(libros, req.id) :
                   IF ~NumericallyEqual(b.usuario_id, req.usuarioId)
                   THEN res'.status = 403 /\ libros' = libros
                   ELSE res'.status = 200 /\ libros' = Overwritten(libros, req) ]_vars

\* What holds of the check of PUT on a book that has an owner.
UpdateGuardedOwned ==
    [][ (Handles("actualizar") /\ ~Empty(req.usuarioId))
        => \A b \in BooksAt(libros, req.id) :
              b.usuario_id # Null
              => IF ~NumericallyEqual(b.usuario_id, req.usuarioId)
                 THEN res'.status = 403 /\ libros' = libros
                 ELSE res'.status = 200 /\ libros' = Overwritten(libros, req) ]_vars

(***************************************************************************)
(* C4.  PUT /libros/:id with an absent or empty usuarioId skips the        *)
(* ownership check (no SELECT is sent): the answer is always 200, the book *)
(* with that id is overwritten whatever its owner, and when there is no    *)
(* such book the table is unchanged.                                       *)
(***************************************************************************)
C4_UpdateBypass ==
    [][ (Handles("actualizar") /\ Empty(req.usuarioId))
        => /\ res'.status = 200
           /\ sqlLog' = <<"UPDATE libros">>
           /\ libros' = Overwritten(libros, req)
           /\ BooksAt(libros, req.id) = {} => libros' = libros ]_vars

\* An update without usuarioId has overwritten a book that has an owner.
C4_Witness ==
    /\ req.kind = "actualizar"
    /\ req.usuarioId = Undef
    /\ res.status = 200
    /\ \E b \in BooksAt(libros, req.id) :
          b.usuario_id # Null /\ b.titulo = req.titulo /\ b.autor = req.autor /\ b.anio = req.anio

(***************************************************************************)
(* C5.  DELETE /libros/:id without usuarioId in the body is answered 400   *)
(* for every id, sends no statement to the store and leaves the table      *)
(* unchanged.                                                              *)
(***************************************************************************)
C5_DeleteNeedsOwner ==
    [][ (Handles("eliminar") /\ req.usuarioId = Undef)
        => /\ res'.status = 400
           /\ sqlLog' = << >>
           /\ libros' = libros ]_vars

\* A delete without usuarioId of an existing book without owner has been refused.
C5_Witness ==
    /\ req.kind = "eliminar"
    /\ req.usuarioId = Undef
    /\ res.status = 400
    /\ \E b \in BooksAt(libros, req.id) : b.usuario_id = Null

(***************************************************************************)
(* C6.  DELETE /libros/:id with a claimed usuarioId, under interleaving:   *)
(* its check answers 404 when no book has the id and 403 when the stored   *)
(* owner is not numerically equal to the claimed id, and otherwise the     *)
(* request goes on to delete the book and answer 200; and a book with an   *)
(* owner leaves the table only in the DELETE of a request whose claimed id *)
(* is numerically equal to the owner the book has at that moment.          *)
(***************************************************************************)
\* The second half of C6 on its own.
DeleteOnlyByOwner ==
    [][ \A b \in libros :
           (b.usuario_id # Null /\ \A b2 \in libros' : b2.id # b.id)
           => \E r \in Suspended("eliminar") :
                 /\ b \in BooksAt(libros, r.id)
                 /\ NumericallyEqual(b.usuario_id, r.usuarioId)
                 /\ EliminarResume(r) ]_vars

C6_DeleteGuarded ==
    [][ /\ \A r \in EliminarRequests :
              (~Empty(r.usuarioId) /\ EliminarSelect(r))
              => IF BooksAt(libros, r.id) = {}
                 THEN res'.status = 404
                 ELSE \A b \in BooksAt(libros, r.id) :
                         IF ~NumericallyEqual(b.usuario_id, r.usuarioId)
                         THEN res'.status = 403
                         ELSE res' = NoResponse /\ Suspend(r)
        /\ \A r \in Suspended("eliminar") :
              EliminarResume(r) => res'.status = 200 /\ BooksAt(libros', r.id) = {}
        /\ \A b \in libros :
              (b.usuario_id # Null /\ \A b2 \in libros' : b2.id # b.id)
              => \E r \in Suspended("eliminar") :
                    /\ b \in BooksAt(libros, r.id)
                    /\ NumericallyEqual(b.usuario_id, r.usuarioId)
                    /\ EliminarResume(r) ]_vars

(***************************************************************************)
(* C7.  Login does not tell a wrong password from an unknown email: the    *)
(* answer to a registered email with a password other than the registered  *)
(* one and the answer to an email never registered are the same response,  *)
(* status 401 with the same message.                                       *)
(***************************************************************************)
C7_LoginIndistinguishable ==
    \A h \in registrados, wrong \in LoginRequests, unknown \in LoginRequests :
       ( /\ wrong.correo = h.correo
         /\ wrong.contrasena \notin {Str(""), h.contrasena}
         /\ unknown.correo # Str("")
         /\ unknown.contrasena # Str("")
         /\ \A h2 \in registrados : h2.correo # unknown.correo )
       => /\ LoginRespuesta(usuarios, wrong).status = 401
          /\ LoginRespuesta(usuarios, wrong) = LoginRespuesta(usuarios, unknown)

\* A login with a registered email and another password has been answered,
\* while some email is still unregistered.
C7_Witness ==
    /\ req.kind = "login"
    /\ res.status = 401
    /\ \E h \in registrados : h.correo = req.correo /\ h.contrasena # req.contrasena
    /\ \E c \in Correos : c # Str("") /\ \A h \in registrados : h.correo # c

(***************************************************************************)
(* C8.  Round trip: once a registration of email E with password P has     *)
(* been answered 200, in every later state a login with E and P is         *)
(* answered 200 with a user made of the id the registration returned, E    *)
(* and the name (null when none was given), and without the password hash. *)
(***************************************************************************)
C8_RegisterThenLogin ==
    \A h \in registrados :
       LET a == LoginRespuesta(usuarios, [kind |-> "login", correo |-> h.correo,
                                          contrasena |-> h.contrasena])
       IN /\ a.status = 200
          /\ DOMAIN a.cuerpo.usuario = {"id", "correo", "nombre"}
          /\ a.cuerpo.usuario.id = h.id
          /\ a.cuerpo.usuario.correo = h.correo
          /\ a.cuerpo.usuario.nombre = (IF h.nombre = Undef THEN Null ELSE h.nombre)

\* A login with the registered password has been answered 200 after a second
\* user was registered.
C8_Witness ==
    /\ req.kind = "login"
    /\ res.status = 200
    /\ Cardinality(usuarios) = 2
    /\ \E h \in registrados :
          h.correo = req.correo /\ h.contrasena = req.contrasena /\ res.cuerpo.usuario.id = h.id

(***************************************************************************)
(* C9.  A book stays listed under the owner it was created with.           *)
(***************************************************************************)
\* The spelling of a body value in a query string; no filter for an absent or
\* null value.
QueryOf(u) ==
    CASE u.t = "undefined" -> Undef
      [] u.t = "null" -> Undef
      [] u.t = "number" -> Str(Digits[u.n + 1])
      [] u.t = "string" -> u

\* A row listed under a filter stays listed under it for as long as it exists.
StaysListed ==
    \A q \in QueryUsuarioIds : \A b \in SelectLibros(libros, q) :
       (\E b2 \in libros' : b2.id = b.id) => \E b2 \in SelectLibros(libros', q) : b2.id = b.id

\* C9 as claimed: after a successful POST /libros with any usuarioId
\* (omitted, null and 0 included), GET /libros with that usuarioId as filter
\* (no filter when it was omitted) returns a row with the id POST returned,
\* for as long as the book is not deleted.
C9_ListedUnderGivenOwner ==
    [][ /\ (Handles("crear") /\ res'.status = 200)
           => \E b \in SelectLibros(libros', QueryOf(req.usuarioId)) : b.id = res'.cuerpo.id
        /\ StaysListed ]_vars

\* C9 as amended: after a successful POST /libros, GET /libros with the
\* usuarioId that POST echoed as filter (no filter when it echoed null, as it
\* does for an omitted, null, 0 or empty usuarioId) returns a row with the id
\* POST returned, for as long as the book is not deleted.
C9_ListedUnderEchoedOwner ==
    [][ /\ (Handles("crear") /\ res'.status = 200)
           => \E b \in SelectLibros(libros', QueryOf(res'.cuerpo.usuarioId)) :
                 b.id = res'.cuerpo.id
        /\ StaysListed ]_vars

\* A book created with usuarioId 0 has been answered with usuarioId null and
\* is listed without filter.
C9_Witness ==
    /\ req.kind = "crear"
    /\ req.usuarioId = Num(0)
    /\ res.status = 200
    /\ res.cuerpo.usuarioId = Null
    /\ \E b \in SelectLibros(libros, Undef) : b.id = res.cuerpo.id /\ b.usuario_id = Null

(***************************************************************************)
(* C10.  The ownership check of PUT and DELETE on an existing book with a  *)
(* non-empty claimed id lets the request through exactly when the stored   *)
(* owner and the claimed id are the same number, in number or string form, *)
(* and answers 403 otherwise: a string that is no numeral matches no book, *)
(* and a book whose stored owner is null is matched by no claimed id.      *)
(***************************************************************************)
C10_GuardComparison ==
    [][ ((Handles("actualizar") \/ Handles("eliminar")) /\ ~Empty(req.usuarioId))
        => \A b \in BooksAt(libros, req.id) :
              /\ res'.status = 200 <=> NumericallyEqual(b.usuario_id, req.usuarioId)
              /\ res'.status = 403 <=> ~NumericallyEqual(b.usuario_id, req.usuarioId) ]_vars

=============================================================================
